---- MODULE Spec2Model ----
(***************************************************************************)
(* A model of gpos_compaction/compact_kern_feature_writer.py: compact()    *)
(* walks the lookups of a font's GPOS table, extracts the pair matrix of   *)
(* every class-based (format 2) PairPos subtable, regroups it under the    *)
(* mode "one", "max" or "auto" and hands every group to fontTools'         *)
(* buildPairPosClassesSubtable.                                            *)
(*                                                                         *)
(* Python values are modelled as follows.                                  *)
(*   Optional[T]      None is <<>>, a present value v is <<v>>             *)
(*   object           a record holding exactly the attributes it has      *)
(*   list / tuple     a sequence                                           *)
(*   dict             the sequence of its <<key, value>> items, in        *)
(*                    insertion order                                      *)
(*   float            a fraction <<numerator, denominator>>                *)
(***************************************************************************)
EXTENDS Integers, Sequences, FiniteSets, TLC

VARIABLES
    font,              \* ttf["GPOS"].table.LookupList.Lookup, mutated in place
    font0,             \* the lookup list as it was when compact() was called
    mode,              \* compact()'s mode argument
    clustering_kwargs, \* compact()'s clustering_kwargs argument
    pc,                \* where the call is: "compact", "compact_lookup",
                       \* "compact_ext_lookup", "returned" or "raised"
    li,                \* index of the lookup compact()'s loop is at
    si,                \* index of the subtable the lookup's loop is at
    new_subtables,     \* the local list compact_lookup / compact_ext_lookup fills
    call,              \* what the latest compact_class_pairs call did
    replaced,          \* the lookups whose SubTable has been assigned
    raised             \* the exception that ended the call, "none" if none

vars == <<font, font0, mode, clustering_kwargs, pc, li, si, new_subtables, call, replaced,
          raised>>

-----------------------------------------------------------------------------
(* Python helpers *)

None == <<>>

Some(v) == <<v>>

Range(s) == {s[k] : k \in DOMAIN s}

\* getattr(value, attr, default)
getattr(value, attr, default) ==
    IF attr \in DOMAIN value THEN value[attr] ELSE default

\* dict: a sequence of <<key, value>> items with distinct keys
Keys(d) == {d[k][1] : k \in DOMAIN d}

Get(d, key) == d[CHOOSE k \in DOMAIN d : d[k][1] = key][2]

\* d[key] = value: an existing key keeps its place
Set(d, key, value) ==
    IF key \in Keys(d)
    THEN [k \in DOMAIN d |-> IF d[k][1] = key THEN <<key, value>> ELSE d[k]]
    ELSE Append(d, <<key, value>>)

\* d.get(key, default)
GetOr(d, key, default) == IF key \in Keys(d) THEN Get(d, key) ELSE default

\* list(d.values())
Values(d) == [k \in DOMAIN d |-> d[k][2]]

\* d.update(e)
RECURSIVE Update(_, _)
Update(d, e) ==
    IF e = <<>> THEN d
    ELSE Update(Set(d, Head(e)[1], Head(e)[2]), Tail(e))

\* the (key, value) entries of a dict, as a set
Items(d) == Range(d)

-----------------------------------------------------------------------------
(* is_really_zero *)

ScalarAttrs == {"XPlacement", "YPlacement", "XAdvance", "YAdvance"}

\* The second generator iterates over ONE string literal, the adjacent
\* literals "XPlaDevice" "YPlaDevice" "XAdvDevice" "YAdvDevice" joined with
\* no comma between them, so attr ranges over its characters.
DeviceAttrs == {"X", "P", "l", "a", "D", "e", "v", "i", "c", "Y", "A", "d"}

PyNone == "None"

is_really_zero(value) ==
    IF value = None THEN TRUE
    ELSE LET v == value[1] IN
         /\ \A attr \in ScalarAttrs : getattr(v, attr, 0) = 0
         /\ \A attr \in DeviceAttrs : getattr(v, attr, PyNone) = PyNone

-----------------------------------------------------------------------------
(* compact_class_pairs: the Pair Extractor *)

\* classes1[...].append(g) / classes2[...].append(g) on a defaultdict(list)
AppendTo(classes, i, g) == Set(classes, i, Append(GetOr(classes, i, <<>>), g))

\* classes1[i] on a defaultdict(list): a missing key is inserted, empty
Touch(classes, i) == IF i \in Keys(classes) THEN classes ELSE Append(classes, <<i, <<>>>>)

RECURSIVE classes1_of(_, _, _)
classes1_of(glyphs, classDefs, classes1) ==
    IF glyphs = <<>> THEN classes1
    ELSE classes1_of(Tail(glyphs), classDefs,
                     AppendTo(classes1, GetOr(classDefs, Head(glyphs), 0), Head(glyphs)))

RECURSIVE classes2_of(_, _)
classes2_of(items, classes2) ==
    IF items = <<>> THEN classes2
    ELSE classes2_of(Tail(items), AppendTo(classes2, Head(items)[2], Head(items)[1]))

\* The loop over enumerate(Class1Record) x enumerate(Class2Record), from cell
\* (i, j) on (0-based); acc holds classes1, classes2 and all_pairs.
RECURSIVE extract_cells(_, _, _, _)
extract_cells(Class1Record, i, j, acc) ==
    IF i >= Len(Class1Record) THEN acc
    ELSE LET row == Class1Record[i + 1].Class2Record IN
         IF j >= Len(row) THEN extract_cells(Class1Record, i + 1, 0, acc)
         ELSE LET class2 == row[j + 1] IN
              IF is_really_zero(class2.Value1) /\ is_really_zero(class2.Value2)
              THEN extract_cells(Class1Record, i, j + 1, acc)
              ELSE LET c1 == Touch(acc.classes1, i)
                       c2 == Touch(acc.classes2, j)
                       key == <<Get(c1, i), Get(c2, j)>>
                   IN extract_cells(Class1Record, i, j + 1,
                          [classes1 |-> c1,
                           classes2 |-> c2,
                           all_pairs |-> Set(acc.all_pairs, key,
                                             <<class2.Value1, class2.Value2>>)])

\* Lines 96-110: classes1, classes2 and all_pairs when the loops are over.
extract(subtable) ==
    extract_cells(subtable.Class1Record, 0, 0,
        [classes1 |-> classes1_of(subtable.Coverage, subtable.ClassDef1, <<>>),
         classes2 |-> classes2_of(subtable.ClassDef2, <<>>),
         all_pairs |-> <<>>])

-----------------------------------------------------------------------------
(* The regrouping strategies *)

\* groups[pair[0]][pair] = values, over pairs.items() (also: lines[...])
RECURSIVE group_by_class1(_, _)
group_by_class1(items, groups) ==
    IF items = <<>> THEN groups
    ELSE LET pair == Head(items)[1]
             values == Head(items)[2]
         IN group_by_class1(Tail(items),
                Set(groups, pair[1], Set(GetOr(groups, pair[1], <<>>), pair, values)))

groups_one(all_pairs) == <<all_pairs>>

groups_max(all_pairs) == Values(group_by_class1(all_pairs, <<>>))

-----------------------------------------------------------------------------
(* cluster_pairs_by_class2_coverage *)

Min(a, b) == IF a <= b THEN a ELSE b

Max(a, b) == IF a >= b THEN a ELSE b

\* A float r > 0 is the fraction <<r[1], r[2]>>. int(n / r) truncates; the
\* quotient is not negative, so it is the floor of n * r[2] / r[1].
int_quotient(n, r) == (n * r[2]) \div r[1]

\* round(n / r): to the nearest integer, a tie to the even one.
round_quotient(n, r) ==
    LET q == (n * r[2]) \div r[1]
        rem == (n * r[2]) % r[1]
    IN IF 2 * rem < r[1] THEN q
       ELSE IF 2 * rem > r[1] THEN q + 1
       ELSE IF q % 2 = 0 THEN q ELSE q + 1

n_clusters_rounded(n_lines, lines_per_cluster) ==
    Min(Max(round_quotient(n_lines, lines_per_cluster), 1), n_lines)

\* Lines 195-197.
n_clusters_for(n_lines, lines_per_cluster) ==
    Min(Max(int_quotient(n_lines, lines_per_cluster), 1), n_lines)

With(kwargs, key, value) ==
    [k \in DOMAIN kwargs \cup {key} |-> IF k = key THEN value ELSE kwargs[k]]

Without(kwargs, key) == [k \in DOMAIN kwargs \ {key} |-> kwargs[k]]

setdefault(kwargs, key, value) ==
    IF key \in DOMAIN kwargs THEN kwargs ELSE With(kwargs, key, value)

DefaultDistanceThreshold == <<55, 10>>

\* Lines 192-203: the keyword arguments AgglomerativeClustering is built with.
clustering_arguments(kwargs, n_lines) ==
    IF "lines_per_cluster" \in DOMAIN kwargs
    THEN With(With(Without(kwargs, "lines_per_cluster"),
                   "n_clusters",
                   Some(n_clusters_for(n_lines, kwargs["lines_per_cluster"]))),
              "distance_threshold", None)
    ELSE setdefault(setdefault(setdefault(kwargs, "n_clusters", None),
                               "linkage", "ward"),
                    "distance_threshold", Some(DefaultDistanceThreshold))

\* AgglomerativeClustering(**kwargs).fit_predict(vectors) raises ValueError
\* unless exactly one of n_clusters and distance_threshold is set, and unless
\* there are at least 2 vectors.
fit_predict_raises(kwargs, n_vectors) ==
    \/ (kwargs["n_clusters"] = None) = (kwargs["distance_threshold"] = None)
    \/ n_vectors < 2

\* Lines 206-213, from position k of zip(all_class1, labels) on.
RECURSIVE group_lines(_, _, _, _, _, _)
group_lines(all_class1, labels, lines, k, grouped_lines, ungrouped_lines) ==
    IF k > Len(all_class1) THEN Values(grouped_lines) \o ungrouped_lines
    ELSE IF labels[k] = -1
    THEN group_lines(all_class1, labels, lines, k + 1, grouped_lines,
                     Append(ungrouped_lines, Get(lines, all_class1[k])))
    ELSE group_lines(all_class1, labels, lines, k + 1,
                     Set(grouped_lines, labels[k],
                         Update(GetOr(grouped_lines, labels[k], <<>>),
                                Get(lines, all_class1[k]))),
                     ungrouped_lines)

\* The grouping with the unassigned rows left out.
cluster_losing_unassigned(pairs, all_class1, labels) ==
    LET kept == SelectSeq([k \in DOMAIN labels |-> k], LAMBDA k : labels[k] # -1)
    IN group_lines([n \in DOMAIN kept |-> all_class1[kept[n]]],
                   [n \in DOMAIN kept |-> labels[kept[n]]],
                   group_by_class1(pairs, <<>>), 1, <<>>, <<>>)

\* The grouping with -1 taken for a cluster label like the others.
cluster_merging_unassigned(pairs, all_class1, labels) ==
    group_lines(all_class1, [k \in DOMAIN labels |-> labels[k] + 1],
                group_by_class1(pairs, <<>>), 1, <<>>, <<>>)

\* all_class1 is list(set(...)): the rows in an order the hash decides;
\* labels is what fit_predict returned, one label per row.
cluster_pairs_by_class2_coverage(pairs, all_class1, labels) ==
    group_lines(all_class1, labels, group_by_class1(pairs, <<>>), 1, <<>>, <<>>)

\* set(pair[0] for pair in pairs)
class1_keys(pairs) == {pairs[k][1][1] : k \in DOMAIN pairs}

-----------------------------------------------------------------------------
(* compact_class_pairs *)

ValidModes == {"one", "max", "auto"}

\* buildPairPosClassesSubtable(pairs, ttf.getReverseGlyphMap()): a new
\* class-based subtable holding the pairs it was given.
buildPairPosClassesSubtable(pairs) == [Format |-> 2, pairs |-> pairs]

\* Lines 112-139: the groups the call hands to the builder, one after the
\* other, when neither the clustering nor the builder raises.
regroup(config, extracted, all_class1, labels) ==
    IF config.mode = "one" THEN groups_one(extracted.all_pairs)
    ELSE IF config.mode = "max" THEN groups_max(extracted.all_pairs)
    ELSE IF Len(extracted.classes1) < 2 THEN <<extracted.all_pairs>>
    ELSE cluster_pairs_by_class2_coverage(extracted.all_pairs, all_class1, labels)

\* Lines 124-131: the call reaches cluster_pairs_by_class2_coverage.
clusters(config, extracted) ==
    config.mode = "auto" /\ ~(Len(extracted.classes1) < 2)

\* One call of compact_class_pairs. all_class1 and labels are the row order
\* and the labels of the clustering, if it runs; fail is the number of the
\* builder call that raises, 0 if none does.
compact_class_pairs(subtable, config, all_class1, labels, fail) ==
    LET extracted == extract(subtable)
        all_pairs == extracted.all_pairs
        n_lines == Cardinality(class1_keys(all_pairs))
        engine == clusters(config, extracted)
        kwargs == IF engine
                  THEN clustering_arguments(config.clustering_kwargs, n_lines)
                  ELSE <<>>
        base == [made |-> TRUE, subtable |-> subtable, all_pairs |-> all_pairs,
                 n_classes1 |-> Len(extracted.classes1),
                 engine |-> engine, kwargs |-> kwargs, labels |-> <<>>,
                 all_class1 |-> <<>>, handed |-> <<>>, subtables |-> <<>>,
                 raised |-> "none"]
    IN IF config.mode \notin ValidModes
       THEN [base EXCEPT !.raised = "BadConfig"]
       ELSE IF engine /\ fit_predict_raises(kwargs, n_lines)
       THEN [base EXCEPT !.raised = "Clustering"]
       ELSE LET groups == regroup(config, extracted, all_class1, labels)
                ran == [base EXCEPT !.labels = IF engine THEN labels ELSE <<>>,
                                    !.all_class1 = IF engine THEN all_class1 ELSE <<>>]
            IN IF fail \in 1..Len(groups)
               THEN [ran EXCEPT !.handed = SubSeq(groups, 1, fail),
                                !.raised = "Builder"]
               ELSE [ran EXCEPT !.handed = groups,
                                !.subtables = [k \in DOMAIN groups |->
                                        buildPairPosClassesSubtable(groups[k])]]

\* Line 86.
compact_glyph_pairs(subtable) == <<subtable>>

NoCall ==
    [made |-> FALSE, subtable |-> <<>>, all_pairs |-> <<>>, n_classes1 |-> 0, engine |-> FALSE,
     kwargs |-> <<>>, labels |-> <<>>, all_class1 |-> <<>>, handed |-> <<>>,
     subtables |-> <<>>, raised |-> "none"]

-----------------------------------------------------------------------------
(* The fonts and configurations compact() is called with *)

MaxLookups == 2

MaxSubtables == 2

MaxLabel == 1

MaxPerCluster == 3

\* A Class2Record of the given kind at cell (i, j); a cell's non-zero value
\* tells which cell it is.
CellAt(kind, i, j) ==
    LET v == 10 * (i + 1) + j IN
    CASE kind = "none" ->
           [Value1 |-> None, Value2 |-> None]
      [] kind = "zero" ->
           [Value1 |-> Some([XPlacement |-> 0, XAdvance |-> 0]),
            Value2 |-> Some([XAdvance |-> 0, XAdvDevice |-> PyNone])]
      [] kind = "kern" ->
           [Value1 |-> Some([XAdvance |-> 0 - v]), Value2 |-> None]
      [] kind = "second" ->
           [Value1 |-> Some([XAdvance |-> 0]), Value2 |-> Some([XPlacement |-> v])]
      [] kind = "device" ->
           [Value1 |-> Some([XAdvance |-> 0, XAdvDevice |-> "dev"]), Value2 |-> None]

CellKinds == {"none", "zero", "kern", "second", "device"}

RowKinds == {"none", "kern"}

\* Coverage, ClassDef1.classDefs, ClassDef2.classDefs and the size of
\* Class1Record. classDefs holds the glyphs of the classes other than 0.
Layouts ==
    [two     |-> [Coverage |-> <<"a", "b">>, ClassDef1 |-> << <<"b", 1>> >>,
                  ClassDef2 |-> << <<"x", 1>> >>, rows |-> 2, columns |-> 2],
     single  |-> [Coverage |-> <<"a", "b">>, ClassDef1 |-> <<>>,
                  ClassDef2 |-> << <<"x", 1>> >>, rows |-> 1, columns |-> 2],
     three   |-> [Coverage |-> <<"a", "b", "c">>,
                  ClassDef1 |-> << <<"b", 1>>, <<"c", 2>> >>,
                  ClassDef2 |-> << <<"x", 1>> >>, rows |-> 3, columns |-> 2],
     no0     |-> [Coverage |-> <<"a", "b">>, ClassDef1 |-> << <<"a", 1>>, <<"b", 1>> >>,
                  ClassDef2 |-> << <<"x", 1>> >>, rows |-> 2, columns |-> 2],
     gaps    |-> [Coverage |-> <<"a">>, ClassDef1 |-> << <<"a", 2>> >>,
                  ClassDef2 |-> << <<"x", 1>>, <<"y", 1>> >>, rows |-> 3, columns |-> 2]]

Cells(layout) == (0 .. layout.rows - 1) \X (0 .. layout.columns - 1)

\* The PairPos format 2 subtable of a layout whose cell (i, j) is of kind
\* kinds[<<i, j>>].
ClassPairSubtable(layout, kinds) ==
    [Format |-> 2,
     Coverage |-> layout.Coverage,
     ClassDef1 |-> layout.ClassDef1,
     ClassDef2 |-> layout.ClassDef2,
     Class1Record |-> [i \in 1 .. layout.rows |->
        [Class2Record |-> [j \in 1 .. layout.columns |->
            CellAt(kinds[<<i - 1, j - 1>>], i - 1, j - 1)]]]]

\* A PairPos format 1 subtable: glyph pairs, never read.
GlyphPairSubtable == [Format |-> 1, PairSet |-> "pairs"]

Full(layout) == ClassPairSubtable(layout, [c \in Cells(layout) |-> "kern"])

\* Every class-based subtable of the small layouts, and of the three-row
\* layout with the kinds of RowKinds.
ClassPairSubtables ==
    UNION {{ClassPairSubtable(Layouts[n], kinds) :
                kinds \in [Cells(Layouts[n]) -> CellKinds]} :
           n \in {"two", "single", "no0"}}
    \cup UNION {{ClassPairSubtable(Layouts[n], kinds) :
                kinds \in [Cells(Layouts[n]) -> RowKinds]} :
           n \in {"three", "gaps"}}

SeqsUpTo(S, n) == UNION {[1 .. k -> S] : k \in 1 .. n}

\* The lookups of the fonts that vary in structure.
Lookups ==
    {[LookupType |-> 2, SubTable |-> st, SubTableCount |-> Len(st)] :
        st \in SeqsUpTo({GlyphPairSubtable, Full(Layouts.two)}, MaxSubtables)}
    \cup
    {[LookupType |-> 9,
      SubTable |-> [k \in DOMAIN st |->
            [Format |-> 1, ExtensionLookupType |-> 2, ExtSubTable |-> st[k]]],
      SubTableCount |-> Len(st)] :
        st \in SeqsUpTo({GlyphPairSubtable, Full(Layouts.two)}, MaxSubtables)}
    \cup
    {[LookupType |-> 1, SubTable |-> <<[Format |-> 1, Value |-> "single"]>>,
      SubTableCount |-> 1],
     [LookupType |-> 9,
      SubTable |-> <<[Format |-> 1, ExtensionLookupType |-> 1,
                      ExtSubTable |-> [Format |-> 1, Value |-> "single"]]>>,
      SubTableCount |-> 1]}

Modes == ValidModes \cup {"min"}

\* lines_per_cluster values: the fractions a / b
PerCluster == {<<a, b>> : a \in 1 .. MaxPerCluster, b \in 1 .. 2}

ClusteringKwargs ==
    {<<>>,
     [n_clusters |-> Some(2)],
     [n_clusters |-> Some(2), distance_threshold |-> None],
     [distance_threshold |-> Some(<<3, 1>>)],
     [linkage |-> "average"],
     [linkage |-> "average", n_clusters |-> Some(2)]}
    \cup {[lines_per_cluster |-> r] : r \in PerCluster}
    \cup {[lines_per_cluster |-> r, linkage |-> "average"] : r \in PerCluster}

\* One lookup holding one class-based subtable, of every content.
InitSubtable ==
    /\ \E subtable \in ClassPairSubtables :
         font = <<[LookupType |-> 2, SubTable |-> <<subtable>>, SubTableCount |-> 1]>>
    /\ mode \in Modes
    /\ clustering_kwargs = <<>>

\* Fonts of up to MaxLookups lookups of up to MaxSubtables subtables, in the
\* modes whose regrouping has one outcome (mode auto is in the other two).
InitLookups ==
    /\ font \in SeqsUpTo(Lookups, MaxLookups)
    /\ mode \in Modes \ {"auto"}
    /\ clustering_kwargs = <<>>

\* Mode "auto" with every clustering configuration.
InitClustering ==
    /\ \E layout \in {Layouts.two, Layouts.three} :
         font = <<[LookupType |-> 2, SubTable |-> <<Full(layout)>>,
                   SubTableCount |-> 1]>>
    /\ mode = "auto"
    /\ clustering_kwargs \in ClusteringKwargs

Init ==
    /\ \/ InitSubtable
       \/ InitLookups
       \/ InitClustering
    /\ font0 = font
    /\ pc = "compact"
    /\ li = 1
    /\ si = 1
    /\ new_subtables = <<>>
    /\ call = NoCall
    /\ replaced = {}
    /\ raised = "none"

-----------------------------------------------------------------------------
(* compact, compact_lookup, compact_ext_lookup *)

Labels == -1 .. MaxLabel

Perms(S) ==
    {p \in [1 .. Cardinality(S) -> S] : \A a, b \in DOMAIN p : p[a] = p[b] => a = b}

config == [mode |-> mode, clustering_kwargs |-> clustering_kwargs]

\* What compact_class_pairs may do with a subtable: one result per row order
\* and label vector of the clustering and per builder call that may raise.
class_pairs_results(subtable) ==
    LET extracted == extract(subtable)
        rows == class1_keys(extracted.all_pairs)
        runs == /\ clusters(config, extracted)
                /\ ~fit_predict_raises(
                       clustering_arguments(clustering_kwargs, Cardinality(rows)),
                       Cardinality(rows))
    IN {compact_class_pairs(subtable, config, all_class1, labels, fail) :
            all_class1 \in (IF runs THEN Perms(rows) ELSE {<<>>}),
            labels \in (IF runs THEN [1 .. Cardinality(rows) -> Labels] ELSE {<<>>}),
            fail \in 0 .. Max(1, Cardinality(rows))}

\* Lines 40-44: the loop of compact() reaches the next lookup.
compact_next_lookup ==
    /\ pc = "compact"
    /\ li <= Len(font)
    /\ LET lookup == font[li] IN
       IF lookup.LookupType = 2
       THEN /\ pc' = "compact_lookup"
            /\ li' = li
       ELSE IF lookup.LookupType = 9 /\ lookup.SubTable[1].ExtensionLookupType = 2
       THEN /\ pc' = "compact_ext_lookup"
            /\ li' = li
       ELSE /\ pc' = "compact"
            /\ li' = li + 1
    /\ si' = 1
    /\ new_subtables' = <<>>
    /\ UNCHANGED <<font, font0, mode, clustering_kwargs, call, replaced, raised>>

\* Line 45.
compact_return ==
    /\ pc = "compact"
    /\ li > Len(font)
    /\ pc' = "returned"
    /\ UNCHANGED <<font, font0, mode, clustering_kwargs, li, si, new_subtables,
                   call, replaced, raised>>

\* compact_lookup's loop, were it to write the lookup's list as it goes.
compact_lookup_subtable_in_place ==
    /\ pc = "compact_lookup"
    /\ si <= Len(font0[li].SubTable)
    /\ LET subtable == font0[li].SubTable[si] IN
       IF subtable.Format = 1
       THEN /\ new_subtables' = new_subtables \o compact_glyph_pairs(subtable)
            /\ si' = si + 1
            /\ UNCHANGED <<pc, call, raised>>
       ELSE \E result \in class_pairs_results(subtable) :
            /\ call' = result
            /\ raised' = result.raised
            /\ IF result.raised = "none"
               THEN /\ new_subtables' = new_subtables \o result.subtables
                    /\ si' = si + 1
                    /\ pc' = pc
               ELSE /\ pc' = "raised"
                    /\ UNCHANGED <<new_subtables, si>>
    /\ font' = [font EXCEPT ![li].SubTable = new_subtables',
                            ![li].SubTableCount = Len(new_subtables')]
    /\ UNCHANGED <<font0, mode, clustering_kwargs, li, replaced>>

\* Lines 52-56: one turn of compact_lookup's loop.
compact_lookup_subtable ==
    /\ pc = "compact_lookup"
    /\ si <= Len(font[li].SubTable)
    /\ LET subtable == font[li].SubTable[si] IN
       IF subtable.Format = 1
       THEN /\ new_subtables' = new_subtables \o compact_glyph_pairs(subtable)
            /\ si' = si + 1
            /\ UNCHANGED <<pc, call, raised>>
       ELSE \E result \in class_pairs_results(subtable) :
            /\ call' = result
            /\ raised' = result.raised
            /\ IF result.raised = "none"
               THEN /\ new_subtables' = new_subtables \o result.subtables
                    /\ si' = si + 1
                    /\ pc' = pc
               ELSE /\ pc' = "raised"
                    /\ UNCHANGED <<new_subtables, si>>
    /\ UNCHANGED <<font, font0, mode, clustering_kwargs, li, replaced>>

\* Lines 57-58.
compact_lookup_install ==
    /\ pc = "compact_lookup"
    /\ si > Len(font[li].SubTable)
    /\ font' = [font EXCEPT ![li].SubTable = new_subtables,
                            ![li].SubTableCount = Len(new_subtables)]
    /\ replaced' = replaced \cup {li}
    /\ pc' = "compact"
    /\ li' = li + 1
    /\ UNCHANGED <<font0, mode, clustering_kwargs, si, new_subtables, call, raised>>

\* Lines 72-74.
ExtensionPos(subtable) == [Format |-> 1, ExtSubTable |-> subtable]

\* Lines 65-75: one turn of compact_ext_lookup's loop.
compact_ext_lookup_subtable ==
    /\ pc = "compact_ext_lookup"
    /\ si <= Len(font[li].SubTable)
    /\ LET subtable == font[li].SubTable[si].ExtSubTable IN
       IF subtable.Format = 1
       THEN /\ new_subtables' = new_subtables \o
                    [k \in {1} |-> ExtensionPos(compact_glyph_pairs(subtable)[k])]
            /\ si' = si + 1
            /\ UNCHANGED <<pc, call, raised>>
       ELSE \E result \in class_pairs_results(subtable) :
            /\ call' = result
            /\ raised' = result.raised
            /\ IF result.raised = "none"
               THEN /\ new_subtables' = new_subtables \o
                            [k \in DOMAIN result.subtables |->
                                ExtensionPos(result.subtables[k])]
                    /\ si' = si + 1
                    /\ pc' = pc
               ELSE /\ pc' = "raised"
                    /\ UNCHANGED <<new_subtables, si>>
    /\ UNCHANGED <<font, font0, mode, clustering_kwargs, li, replaced>>

\* Lines 76-77.
compact_ext_lookup_install ==
    /\ pc = "compact_ext_lookup"
    /\ si > Len(font[li].SubTable)
    /\ font' = [font EXCEPT ![li].SubTable = new_subtables,
                            ![li].SubTableCount = Len(new_subtables)]
    /\ replaced' = replaced \cup {li}
    /\ pc' = "compact"
    /\ li' = li + 1
    /\ UNCHANGED <<font0, mode, clustering_kwargs, si, new_subtables, call, raised>>

Next ==
    \/ compact_next_lookup
    \/ compact_return
    \/ compact_lookup_subtable
    \/ compact_lookup_install
    \/ compact_ext_lookup_subtable
    \/ compact_ext_lookup_install

Spec == Init /\ [][Next]_vars

-----------------------------------------------------------------------------
(* The properties *)

Rows(pairs) == class1_keys(pairs)

\* A value record as the specification reads it: missing, or every scalar 0
\* or absent and none of the four device tables attached.
SemanticallyZero(value) ==
    \/ value = None
    \/ /\ \A attr \in ScalarAttrs : getattr(value[1], attr, 0) = 0
       /\ \A attr \in {"XPlaDevice", "YPlaDevice", "XAdvDevice", "YAdvDevice"} :
              getattr(value[1], attr, PyNone) = PyNone

\* The cells (i, j) of a subtable, 0-based, and the record of each.
CellsOf(subtable) ==
    {<<i, j>> : i \in 0 .. Len(subtable.Class1Record) - 1,
                j \in 0 .. Len(subtable.Class1Record[1].Class2Record) - 1}

CellOf(subtable, c) == subtable.Class1Record[c[1] + 1].Class2Record[c[2] + 1]

\* The key the extraction files cell c under.
KeyOf(subtable, c) ==
    <<GetOr(extract(subtable).classes1, c[1], <<>>),
      GetOr(extract(subtable).classes2, c[2], <<>>)>>

\* Cell c is in the pair matrix: its key is, with its two records.
Present(subtable, pairs, c) ==
    /\ KeyOf(subtable, c) \in Keys(pairs)
    /\ Get(pairs, KeyOf(subtable, c)) =
           <<CellOf(subtable, c).Value1, CellOf(subtable, c).Value2>>

\* C1. Mass conservation: whenever compact_class_pairs has handed its groups
\* to the builder (mode one, max or auto, any label vector, -1 included), no
\* key is in two groups and the entries of the groups together are exactly
\* the entries of all_pairs, with the same values.
C1_MassConservation ==
    (call.made /\ call.raised = "none") =>
        /\ \A a, b \in DOMAIN call.handed :
               a # b => Keys(call.handed[a]) \cap Keys(call.handed[b]) = {}
        /\ UNION {Items(call.handed[k]) : k \in DOMAIN call.handed}
               = Items(call.all_pairs)
        /\ \A k \in DOMAIN call.handed :
               Cardinality(Keys(call.handed[k])) = Len(call.handed[k])

\* The clustering ran on three rows, left one unassigned and put two together.
C1_Witness ==
    /\ call.made /\ call.raised = "none" /\ call.engine
    /\ Cardinality(Rows(call.all_pairs)) = 3
    /\ \E a, b, c \in DOMAIN call.labels :
           /\ a # b
           /\ call.labels[a] = call.labels[b]
           /\ call.labels[a] >= 0
           /\ call.labels[c] = -1
    /\ Len(call.handed) = 2

\* C2. Zero filter: a cell is absent from the pair matrix exactly when both
\* of its value records are semantically zero; a cell with zero scalars and
\* a device table attached is present.
C2_ZeroFilter ==
    call.made =>
        \A c \in CellsOf(call.subtable) :
            ~Present(call.subtable, call.all_pairs, c)
                <=> (/\ SemanticallyZero(CellOf(call.subtable, c).Value1)
                     /\ SemanticallyZero(CellOf(call.subtable, c).Value2))

\* C3. Unknown mode: a call with a mode other than one, max, auto never
\* returns normally, and when it raises it raises the configuration error
\* with no lookup's subtable list replaced.
C3_UnknownModeFails ==
    mode \notin ValidModes =>
        /\ pc # "returned"
        /\ pc = "raised" => (raised = "BadConfig" /\ replaced = {})

\* C4. Auto-mode guard: with fewer than 2 rows in the pair matrix, mode auto
\* does not invoke the clustering and hands the builder one group, the whole
\* pair matrix.
C4_AutoGuard ==
    (call.made /\ mode = "auto" /\ Cardinality(Rows(call.all_pairs)) < 2) =>
        /\ ~call.engine
        /\ call.handed = <<call.all_pairs>>

\* C5. Output count: a non-empty pair matrix yields at least one subtable
\* (exactly one in mode one, built from the whole matrix), an empty one yields
\* none, and the builder is never called with an empty pair matrix.
C5_OutputCount ==
    (call.made /\ mode \in ValidModes /\ call.raised # "Builder") =>
        /\ call.raised = "none"
        /\ call.all_pairs # <<>> => Len(call.subtables) >= 1
        /\ (call.all_pairs # <<>> /\ mode = "one") =>
               call.subtables = <<buildPairPosClassesSubtable(call.all_pairs)>>
        /\ call.all_pairs = <<>> => call.subtables = <<>>
        /\ \A k \in DOMAIN call.handed : call.handed[k] # <<>>

\* The group of the groups handed to the builder that holds a row's pairs.
GroupsOf(row) == {k \in DOMAIN call.handed : row \in Rows(call.handed[k])}

LabelOf(row) == call.labels[CHOOSE k \in DOMAIN call.all_class1 : call.all_class1[k] = row]

\* C6. Row integrity: when the clustering ran, every row's pairs are all in
\* one group; two rows are in the same group exactly when they have the same
\* label and it is not -1; a row labelled -1 is alone in its group.
C6_RowIntegrity ==
    (call.made /\ call.engine /\ call.raised = "none") =>
        /\ \A row \in Rows(call.all_pairs) :
               /\ Cardinality(GroupsOf(row)) = 1
               /\ \A k \in GroupsOf(row) :
                      \A item \in Items(call.all_pairs) :
                          item[1][1] = row => item \in Items(call.handed[k])
        /\ \A a, b \in Rows(call.all_pairs) :
               a # b => ((GroupsOf(a) = GroupsOf(b))
                            <=> (LabelOf(a) = LabelOf(b) /\ LabelOf(a) # -1))
        /\ \A k \in DOMAIN call.handed : call.handed[k] # <<>>

\* Two rows were left unassigned and a third got a label.
C6_Witness ==
    /\ call.made /\ call.engine /\ call.raised = "none"
    /\ \E a, b, c \in DOMAIN call.labels :
           /\ a # b
           /\ call.labels[a] = -1
           /\ call.labels[b] = -1
           /\ call.labels[c] >= 0
    /\ Len(call.handed) = 3

\* C7. All or nothing: when the builder has raised, the call has ended with
\* that exception and the lookup being compacted has the SubTable and the
\* SubTableCount it had before the call; every lookup's SubTableCount is
\* the length of its SubTable.
C7_AllOrNothing ==
    /\ call.raised = "Builder" =>
           /\ pc = "raised" /\ raised = "Builder"
           /\ font[li].SubTable = font0[li].SubTable
           /\ font[li].SubTableCount = font0[li].SubTableCount
           /\ li \notin replaced
    /\ \A k \in DOMAIN font : font[k].SubTableCount = Len(font[k].SubTable)

\* The builder raised after replacements of the lookup had been built.
C7_Witness ==
    /\ pc = "raised" /\ raised = "Builder"
    /\ new_subtables # <<>>
    /\ Len(call.handed) = 2

\* n and r of the call, when lines_per_cluster is given.
LinesOfCall == Cardinality(Rows(call.all_pairs))

PerClusterOfCall == clustering_kwargs["lines_per_cluster"]

\* C8, as claimed: the cluster count is max(1, min(round(n / r), n)).
C8_Rounded ==
    (call.made /\ call.engine /\ "lines_per_cluster" \in DOMAIN clustering_kwargs) =>
        call.kwargs["n_clusters"] =
            Some(Max(1, Min(round_quotient(LinesOfCall, PerClusterOfCall), LinesOfCall)))

\* C8, amended: the cluster count k is n / r truncated and kept within 1..n:
\* k * r <= n unless k is 1, and n < (k + 1) * r unless k is n.
C8_Truncated ==
    (call.made /\ call.engine /\ "lines_per_cluster" \in DOMAIN clustering_kwargs) =>
        \E k \in 1 .. LinesOfCall :
            /\ call.kwargs["n_clusters"] = Some(k)
            /\ k * PerClusterOfCall[1] <= LinesOfCall * PerClusterOfCall[2] \/ k = 1
            /\ LinesOfCall * PerClusterOfCall[2] < (k + 1) * PerClusterOfCall[1]
                   \/ k = LinesOfCall

\* Three rows, two per cluster: 1.5 is truncated to 1.
C8_Witness ==
    /\ call.made /\ call.engine /\ call.raised = "none"
    /\ "lines_per_cluster" \in DOMAIN clustering_kwargs
    /\ LinesOfCall = 3
    /\ PerClusterOfCall = <<2, 1>>
    /\ call.kwargs["n_clusters"] = Some(1)

\* C9. One clustering mode: the arguments of the clustering have exactly one
\* of n_clusters and distance_threshold set; with no configuration given it
\* is distance_threshold 5.5, with linkage ward.
C9_OneMode ==
    (call.made /\ call.engine) =>
        /\ (call.kwargs["n_clusters"] = None) # (call.kwargs["distance_threshold"] = None)
        /\ clustering_kwargs = <<>> =>
               /\ call.kwargs["distance_threshold"] = Some(<<55, 10>>)
               /\ call.kwargs["linkage"] = "ward"

\* C10. Keys: both glyph tuples of every key of the pair matrix are non-empty
\* and the retained cells have keys of their own.
C10_KeysWellFormed ==
    call.made =>
        /\ \A key \in Keys(call.all_pairs) : key[1] # <<>> /\ key[2] # <<>>
        /\ Len(call.all_pairs) =
               Cardinality({c \in CellsOf(call.subtable) :
                   ~(/\ is_really_zero(CellOf(call.subtable, c).Value1)
                     /\ is_really_zero(CellOf(call.subtable, c).Value2))})

====
